---- MODULE Spec2Model ----
(***************************************************************************)
(* A model of m3lc, a normal-order beta reducer for the untyped lambda     *)
(* calculus: the Term grammar and its rendering (grammar.rs), reduction,   *)
(* substitution, alpha-equivalence and fresh names (reduce.rs), and the    *)
(* parser's tree construction (parse.rs).                                  *)
(*                                                                         *)
(* An identifier (a Rust String) is a tuple: <<base>> is the text `base`,  *)
(* <<base, n>> is the text `base.n`, <<base, n, m>> is `base.n.m`.  The    *)
(* '.' of the text is the boundary between two elements of the tuple, so   *)
(* `s.split('.').next()` is Head.                                          *)
(***************************************************************************)
EXTENDS Integers, Sequences, FiniteSets, TLC

VARIABLES
    self,      \* reduce: the term being rewritten (`mut self`)
    COUNTER,   \* the thread-local fresh-name counter
    pc,        \* the position of the running operation
    verbose,   \* reduce's flag
    stdout,    \* the lines println! has written
    steps,     \* how many times reduce's loop body has run
    args,      \* the inputs the running operation was called with
    ret        \* the value the operation returned

vars == <<self, COUNTER, pc, verbose, stdout, steps, args, ret>>

(***************************************************************************)
(* Bounds of the model.                                                    *)
(***************************************************************************)
MaxSize == 5        \* reduce: nodes of an exhaustively enumerated input term
MaxSteps == 12      \* reduce: loop iterations before the model stops watching
NFDepth == 3        \* contractions, in any order, the search for a normal form may use
MaxCounter == 1     \* largest value of COUNTER when an operation starts
SubstSize == 4      \* subst: nodes of the term substituted into
SubstArgSize == 2   \* subst: nodes of the term substituted in
AlphaSize == 5      \* alpha_equiv: nodes of each term of a compared pair
AlphaTripleSize == 3 \* alpha_equiv: nodes of each term of a compared triple
MaxDefns == 3       \* unroll: definitions of a File
DisplaySize == 6    \* Display: nodes of a rendered term
MaxCalls == 4       \* get_fresh_ident: calls made in one run
IrrSize == 7        \* is_irreducible: nodes of the term
ChurchSize == 5     \* usize::try_from: nodes of an arbitrary input term
PairSize == 5       \* two runs of reduce: nodes of each input
MaxNum == 3         \* Church numerals: the largest number converted

None == <<"None">>

(***************************************************************************)
(* grammar.rs: Term.                                                       *)
(***************************************************************************)
Var(s) == <<"Var", s>>
Lam(param, rule) == <<"Lam", param, rule>>
Appl(left, right) == <<"Appl", left, right>>

IsVar(t) == t[1] = "Var"
IsLam(t) == t[1] = "Lam"
IsAppl(t) == t[1] = "Appl"

\* the identifier `b` as the user writes it
Id(b) == <<b>>

RECURSIVE Size(_)
Size(t) ==
    IF IsVar(t) THEN 1
    ELSE IF IsLam(t) THEN 1 + Size(t[3])
    ELSE 1 + Size(t[2]) + Size(t[3])

\* every Term of exactly n nodes whose identifiers are in names
RECURSIVE TermsOfSize(_, _)
TermsOfSize(n, names) ==
    IF n = 1 THEN {Var(x) : x \in names}
    ELSE {Lam(p, r) : p \in names, r \in TermsOfSize(n - 1, names)}
         \cup UNION {{Appl(l, r) : l \in TermsOfSize(i, names),
                                   r \in TermsOfSize(n - 1 - i, names)}
                     : i \in 1..(n - 2)}

TermsUpTo(n, names) == UNION {TermsOfSize(i, names) : i \in 1..n}

(***************************************************************************)
(* reduce.rs: fresh names.                                                 *)
(***************************************************************************)
\* get_fresh_ident leaving the counter as it found it
get_fresh_ident_no_increment(s, c) ==
    [name |-> <<Head(s), c + 1>>, counter |-> c]

\* get_fresh_ident appending to the whole of s, suffix included
get_fresh_ident_keeps_suffix(s, c) ==
    [name |-> Append(s, c + 1), counter |-> c + 1]

\* get_fresh_ident(s) with COUNTER = c: the name and the counter afterwards.
\* COUNTER is a usize; the runs modelled here stay far below its width.
get_fresh_ident(s, c) ==
    [name |-> <<Head(s), c + 1>>, counter |-> c + 1]

(***************************************************************************)
(* reduce.rs: substitution.  The result carries the counter along.         *)
(***************************************************************************)
\* subst leaving the parameter of every abstraction as it is
RECURSIVE subst_no_rename(_, _, _, _)
subst_no_rename(t, replace, with, c) ==
    IF IsVar(t) THEN
        IF t[2] = replace THEN [term |-> with, counter |-> c]
        ELSE [term |-> t, counter |-> c]
    ELSE IF IsLam(t) THEN
        IF t[2] = replace THEN [term |-> t, counter |-> c]
        ELSE LET r2 == subst_no_rename(t[3], replace, with, c)
             IN [term |-> Lam(t[2], r2.term), counter |-> r2.counter]
    ELSE LET l == subst_no_rename(t[2], replace, with, c)
             r == subst_no_rename(t[3], replace, with, l.counter)
         IN [term |-> Appl(l.term, r.term), counter |-> r.counter]

\* subst renaming the parameter of an abstraction that rebinds replace too
RECURSIVE subst_rename_shadowing(_, _, _, _)
subst_rename_shadowing(t, replace, with, c) ==
    IF IsVar(t) THEN
        IF t[2] = replace THEN [term |-> with, counter |-> c]
        ELSE [term |-> t, counter |-> c]
    ELSE IF IsLam(t) THEN
        LET f == get_fresh_ident(t[2], c)
            r1 == subst_rename_shadowing(t[3], t[2], Var(f.name), f.counter)
            r2 == IF t[2] = replace THEN r1
                  ELSE subst_rename_shadowing(r1.term, replace, with, r1.counter)
        IN [term |-> Lam(f.name, r2.term), counter |-> r2.counter]
    ELSE LET l == subst_rename_shadowing(t[2], replace, with, c)
             r == subst_rename_shadowing(t[3], replace, with, l.counter)
         IN [term |-> Appl(l.term, r.term), counter |-> r.counter]

\* subst renaming the parameter but not its occurrences in the rule
RECURSIVE subst_renames_param_only(_, _, _, _)
subst_renames_param_only(t, replace, with, c) ==
    IF IsVar(t) THEN
        IF t[2] = replace THEN [term |-> with, counter |-> c]
        ELSE [term |-> t, counter |-> c]
    ELSE IF IsLam(t) THEN
        IF t[2] = replace THEN [term |-> t, counter |-> c]
        ELSE LET f == get_fresh_ident(t[2], c)
                 r2 == subst_renames_param_only(t[3], replace, with, f.counter)
             IN [term |-> Lam(f.name, r2.term), counter |-> r2.counter]
    ELSE LET l == subst_renames_param_only(t[2], replace, with, c)
             r == subst_renames_param_only(t[3], replace, with, l.counter)
         IN [term |-> Appl(l.term, r.term), counter |-> r.counter]

RECURSIVE subst(_, _, _, _)
subst(t, replace, with, c) ==
    IF IsVar(t) THEN
        IF t[2] = replace THEN [term |-> with, counter |-> c]
        ELSE [term |-> t, counter |-> c]
    ELSE IF IsLam(t) THEN
        IF t[2] = replace THEN [term |-> t, counter |-> c]
        ELSE LET f == get_fresh_ident(t[2], c)
                 r1 == subst(t[3], t[2], Var(f.name), f.counter)
                 r2 == subst(r1.term, replace, with, r1.counter)
             IN [term |-> Lam(f.name, r2.term), counter |-> r2.counter]
    ELSE LET l == subst(t[2], replace, with, c)
             r == subst(t[3], replace, with, l.counter)
         IN [term |-> Appl(l.term, r.term), counter |-> r.counter]

(***************************************************************************)
(* reduce.rs: irreducibility, one step, apply.                             *)
(***************************************************************************)
\* is_irreducible without the look at an application's right child
RECURSIVE is_irreducible_left_only(_)
is_irreducible_left_only(t) ==
    IF IsVar(t) THEN TRUE
    ELSE IF IsAppl(t) THEN
        IF IsLam(t[2]) THEN FALSE
        ELSE is_irreducible_left_only(t[2])
    ELSE is_irreducible_left_only(t[3])

\* is_irreducible without the look under an abstraction
RECURSIVE is_irreducible_lam_opaque(_)
is_irreducible_lam_opaque(t) ==
    IF IsVar(t) THEN TRUE
    ELSE IF IsAppl(t) THEN
        IF IsLam(t[2]) THEN FALSE
        ELSE is_irreducible_lam_opaque(t[2]) /\ is_irreducible_lam_opaque(t[3])
    ELSE TRUE

RECURSIVE is_irreducible(_)
is_irreducible(t) ==
    IF IsVar(t) THEN TRUE
    ELSE IF IsAppl(t) THEN
        IF IsLam(t[2]) THEN FALSE
        ELSE is_irreducible(t[2]) /\ is_irreducible(t[3])
    ELSE is_irreducible(t[3])

\* apply writing back the rule as it is, nothing substituted
apply_without_subst(t, c) ==
    IF IsAppl(t) /\ IsLam(t[2]) THEN
        [term |-> t[2][3], counter |-> c, panic |-> FALSE]
    ELSE [term |-> Var(Id("")), counter |-> c, panic |-> TRUE]

\* apply leaving the placeholder where the substituted body belongs
apply_leaves_placeholder(t, c) ==
    IF IsAppl(t) /\ IsLam(t[2]) THEN
        LET r == subst(t[2][3], t[2][2], t[3], c)
        IN [term |-> Var(Id("")), counter |-> r.counter, panic |-> FALSE]
    ELSE [term |-> Var(Id("")), counter |-> c, panic |-> TRUE]

\* apply: the placeholder Var("") sits in the redex position until the
\* substituted rule is written back; a panic leaves the placeholder there.
apply(t, c) ==
    IF IsAppl(t) /\ IsLam(t[2]) THEN
        LET r == subst(t[2][3], t[2][2], t[3], c)
        IN [term |-> r.term, counter |-> r.counter, panic |-> FALSE]
    ELSE [term |-> Var(Id("")), counter |-> c, panic |-> TRUE]

\* reduction_step preferring an application's right child to its left one
RECURSIVE reduction_step_right_first(_, _)
reduction_step_right_first(t, c) ==
    IF IsVar(t) THEN [term |-> t, counter |-> c, panic |-> TRUE]
    ELSE IF IsLam(t) THEN
        LET r == reduction_step_right_first(t[3], c)
        IN [term |-> Lam(t[2], r.term), counter |-> r.counter, panic |-> r.panic]
    ELSE IF IsLam(t[2]) THEN apply(t, c)
    ELSE IF ~is_irreducible(t[3]) THEN
        LET r == reduction_step_right_first(t[3], c)
        IN [term |-> Appl(t[2], r.term), counter |-> r.counter, panic |-> r.panic]
    ELSE
        LET l == reduction_step_right_first(t[2], c)
        IN [term |-> Appl(l.term, t[3]), counter |-> l.counter, panic |-> l.panic]

\* reduction_step going into the left child of an application without
\* asking whether it is irreducible
RECURSIVE reduction_step_left_unchecked(_, _)
reduction_step_left_unchecked(t, c) ==
    IF IsVar(t) THEN [term |-> t, counter |-> c, panic |-> TRUE]
    ELSE IF IsLam(t) THEN
        LET r == reduction_step_left_unchecked(t[3], c)
        IN [term |-> Lam(t[2], r.term), counter |-> r.counter, panic |-> r.panic]
    ELSE IF IsLam(t[2]) THEN apply(t, c)
    ELSE
        LET l == reduction_step_left_unchecked(t[2], c)
        IN [term |-> Appl(l.term, t[3]), counter |-> l.counter, panic |-> l.panic]

RECURSIVE reduction_step(_, _)
reduction_step(t, c) ==
    IF IsVar(t) THEN [term |-> t, counter |-> c, panic |-> TRUE]
    ELSE IF IsLam(t) THEN
        LET r == reduction_step(t[3], c)
        IN [term |-> Lam(t[2], r.term), counter |-> r.counter, panic |-> r.panic]
    ELSE IF IsLam(t[2]) THEN apply(t, c)
    ELSE IF is_irreducible(t[2]) THEN
        LET r == reduction_step(t[3], c)
        IN [term |-> Appl(t[2], r.term), counter |-> r.counter, panic |-> r.panic]
    ELSE
        LET l == reduction_step(t[2], c)
        IN [term |-> Appl(l.term, t[3]), counter |-> l.counter, panic |-> l.panic]

(***************************************************************************)
(* reduce.rs: alpha-equivalence.                                           *)
(***************************************************************************)
\* Vec::iter().rfind: the largest index whose entry binds x or y, 0 if none
rfind(ctx, x, y) ==
    LET hits == {i \in 1..Len(ctx) : ctx[i][1] = x \/ ctx[i][2] = y}
    IN IF hits = {} THEN 0 ELSE CHOOSE i \in hits : \A j \in hits : j <= i

\* alpha_equiv_impl comparing the identifiers before it looks at the context
RECURSIVE alpha_equiv_impl_names_first(_, _, _)
alpha_equiv_impl_names_first(a, b, ctx) ==
    IF IsVar(a) /\ IsVar(b) THEN
        LET i == rfind(ctx, a[2], b[2])
        IN \/ a[2] = b[2]
           \/ i # 0 /\ ctx[i][1] = a[2] /\ ctx[i][2] = b[2]
    ELSE IF IsLam(a) /\ IsLam(b) THEN
        alpha_equiv_impl_names_first(a[3], b[3], Append(ctx, <<a[2], b[2]>>))
    ELSE IF IsAppl(a) /\ IsAppl(b) THEN
        /\ alpha_equiv_impl_names_first(a[2], b[2], ctx)
        /\ alpha_equiv_impl_names_first(a[3], b[3], ctx)
    ELSE FALSE

\* alpha_equiv_impl looking only for a binding of the left term's identifier
RECURSIVE alpha_equiv_impl_left_lookup(_, _, _)
alpha_equiv_impl_left_lookup(a, b, ctx) ==
    IF IsVar(a) /\ IsVar(b) THEN
        LET hits == {i \in 1..Len(ctx) : ctx[i][1] = a[2]}
        IN IF hits = {} THEN a[2] = b[2]
           ELSE LET i == CHOOSE k \in hits : \A j \in hits : j <= k
                IN ctx[i][2] = b[2]
    ELSE IF IsLam(a) /\ IsLam(b) THEN
        alpha_equiv_impl_left_lookup(a[3], b[3], Append(ctx, <<a[2], b[2]>>))
    ELSE IF IsAppl(a) /\ IsAppl(b) THEN
        /\ alpha_equiv_impl_left_lookup(a[2], b[2], ctx)
        /\ alpha_equiv_impl_left_lookup(a[3], b[3], ctx)
    ELSE FALSE

RECURSIVE alpha_equiv_impl(_, _, _)
alpha_equiv_impl(a, b, ctx) ==
    IF IsVar(a) /\ IsVar(b) THEN
        LET i == rfind(ctx, a[2], b[2])
        IN IF i = 0 THEN a[2] = b[2]
           ELSE ctx[i][1] = a[2] /\ ctx[i][2] = b[2]
    ELSE IF IsLam(a) /\ IsLam(b) THEN
        alpha_equiv_impl(a[3], b[3], Append(ctx, <<a[2], b[2]>>))
    ELSE IF IsAppl(a) /\ IsAppl(b) THEN
        alpha_equiv_impl(a[2], b[2], ctx) /\ alpha_equiv_impl(a[3], b[3], ctx)
    ELSE FALSE

alpha_equiv(a, b) == alpha_equiv_impl(a, b, <<>>)

(***************************************************************************)
(* Reference notions the properties are stated with.  None of them is      *)
(* used by the program's operators above.                                  *)
(***************************************************************************)
\* the positions of t: paths of child indices (Lam: 3 = rule; Appl: 2 =
\* left, 3 = right)
RECURSIVE Positions(_)
Positions(t) ==
    IF IsVar(t) THEN {<<>>}
    ELSE IF IsLam(t) THEN {<<>>} \cup {<<3>> \o p : p \in Positions(t[3])}
    ELSE {<<>>} \cup {<<2>> \o p : p \in Positions(t[2])}
                \cup {<<3>> \o p : p \in Positions(t[3])}

RECURSIVE At(_, _)
At(t, p) == IF p = <<>> THEN t ELSE At(t[Head(p)], Tail(p))

RECURSIVE ReplaceAt(_, _, _)
ReplaceAt(t, p, u) ==
    IF p = <<>> THEN u
    ELSE [t EXCEPT ![Head(p)] = ReplaceAt(t[Head(p)], Tail(p), u)]

IsRedex(t) == IsAppl(t) /\ IsLam(t[2])

\* the positions of the beta-redexes of t
Redexes(t) == {p \in Positions(t) : IsRedex(At(t, p))}

\* p comes before q in the left-to-right, outside-in order of positions
Before(p, q) ==
    \/ Len(p) < Len(q) /\ SubSeq(q, 1, Len(p)) = p
    \/ \E i \in 1..Len(p) :
          /\ i <= Len(q)
          /\ SubSeq(p, 1, i - 1) = SubSeq(q, 1, i - 1)
          /\ p[i] < q[i]

LeftmostOutermost(t) ==
    CHOOSE p \in Redexes(t) : \A q \in Redexes(t) : q = p \/ Before(p, q)

\* the names occurring free in t
RECURSIVE FV(_)
FV(t) ==
    IF IsVar(t) THEN {t[2]}
    ELSE IF IsLam(t) THEN FV(t[3]) \ {t[2]}
    ELSE FV(t[2]) \cup FV(t[3])

\* every identifier written anywhere in t
RECURSIVE Idents(_)
Idents(t) ==
    IF IsVar(t) THEN {t[2]}
    ELSE IF IsLam(t) THEN {t[2]} \cup Idents(t[3])
    ELSE Idents(t[2]) \cup Idents(t[3])

\* the nameless form: a bound occurrence is <<"B", k>>, k binders between it
\* and its own; a free one keeps its name, <<"F", x>>
RECURSIVE Nameless(_, _)
Nameless(t, bound) ==
    IF IsVar(t) THEN
        LET hits == {i \in 1..Len(bound) : bound[i] = t[2]}
        IN IF hits = {} THEN <<"F", t[2]>>
           ELSE <<"B", Len(bound) - (CHOOSE i \in hits : \A j \in hits : j <= i)>>
    ELSE IF IsLam(t) THEN <<"L", Nameless(t[3], Append(bound, t[2]))>>
    ELSE <<"A", Nameless(t[2], bound), Nameless(t[3], bound)>>

DB(t) == Nameless(t, <<>>)

\* textbook substitution of the closed-index form ds for the free name x
RECURSIVE DBSubstFree(_, _, _)
DBSubstFree(d, x, ds) ==
    IF d[1] = "F" THEN (IF d[2] = x THEN ds ELSE d)
    ELSE IF d[1] = "B" THEN d
    ELSE IF d[1] = "L" THEN <<"L", DBSubstFree(d[2], x, ds)>>
    ELSE <<"A", DBSubstFree(d[2], x, ds), DBSubstFree(d[3], x, ds)>>

\* de Bruijn shift of the indices >= cutoff by n
RECURSIVE DBShift(_, _, _)
DBShift(d, n, cutoff) ==
    IF d[1] = "F" THEN d
    ELSE IF d[1] = "B" THEN (IF d[2] >= cutoff THEN <<"B", d[2] + n>> ELSE d)
    ELSE IF d[1] = "L" THEN <<"L", DBShift(d[2], n, cutoff + 1)>>
    ELSE <<"A", DBShift(d[2], n, cutoff), DBShift(d[3], n, cutoff)>>

\* de Bruijn substitution of a for index k in the body of a contracted redex
RECURSIVE DBOpen(_, _, _)
DBOpen(d, k, a) ==
    IF d[1] = "F" THEN d
    ELSE IF d[1] = "B" THEN
        IF d[2] = k THEN DBShift(a, k, 0)
        ELSE IF d[2] > k THEN <<"B", d[2] - 1>>
        ELSE d
    ELSE IF d[1] = "L" THEN <<"L", DBOpen(d[2], k + 1, a)>>
    ELSE <<"A", DBOpen(d[2], k, a), DBOpen(d[3], k, a)>>

DBIsRedex(d) == d[1] = "A" /\ d[2][1] = "L"

\* every result of contracting one redex of d, anywhere in d
RECURSIVE DBReducts(_)
DBReducts(d) ==
    IF d[1] \in {"F", "B"} THEN {}
    ELSE IF d[1] = "L" THEN {<<"L", b>> : b \in DBReducts(d[2])}
    ELSE (IF DBIsRedex(d) THEN {DBOpen(d[2][2], 0, d[3])} ELSE {})
         \cup {<<"A", l, d[3]>> : l \in DBReducts(d[2])}
         \cup {<<"A", d[2], r>> : r \in DBReducts(d[3])}

\* the beta-normal forms some sequence of at most k contractions reaches
RECURSIVE DBNormalForms(_, _)
DBNormalForms(ds, k) ==
    LET nfs == {d \in ds : DBReducts(d) = {}}
    IN IF k = 0 THEN nfs
       ELSE nfs \cup DBNormalForms(UNION {DBReducts(d) : d \in ds}, k - 1)

(***************************************************************************)
(* grammar.rs: Display.  The text is a sequence of tokens, each token the  *)
(* identifier tuple of its text; the single spaces Display writes are the  *)
(* token boundaries.  The keyword `fn` and an identifier spelled fn are    *)
(* the same token.                                                         *)
(***************************************************************************)
KwFn == Id("fn")
KwArrow == Id("=>")
LParen == Id("(")
RParen == Id(")")

\* Display without the parentheses around an abstraction on the left
RECURSIVE Display_bare_left(_)
Display_bare_left(t) ==
    IF IsVar(t) THEN <<t[2]>>
    ELSE IF IsLam(t) THEN <<KwFn, t[2], KwArrow>> \o Display_bare_left(t[3])
    ELSE LET right_fmt == IF IsVar(t[3])
                          THEN Display_bare_left(t[3])
                          ELSE <<LParen>> \o Display_bare_left(t[3]) \o <<RParen>>
         IN Display_bare_left(t[2]) \o right_fmt

\* Display parenthesizing on the right only an application
RECURSIVE Display_bare_right_lam(_)
Display_bare_right_lam(t) ==
    IF IsVar(t) THEN <<t[2]>>
    ELSE IF IsLam(t) THEN <<KwFn, t[2], KwArrow>> \o Display_bare_right_lam(t[3])
    ELSE LET left_fmt == IF IsLam(t[2])
                         THEN <<LParen>> \o Display_bare_right_lam(t[2]) \o <<RParen>>
                         ELSE Display_bare_right_lam(t[2])
             right_fmt == IF IsAppl(t[3])
                          THEN <<LParen>> \o Display_bare_right_lam(t[3]) \o <<RParen>>
                          ELSE Display_bare_right_lam(t[3])
         IN left_fmt \o right_fmt

RECURSIVE Display(_)
Display(t) ==
    IF IsVar(t) THEN <<t[2]>>
    ELSE IF IsLam(t) THEN <<KwFn, t[2], KwArrow>> \o Display(t[3])
    ELSE LET left_fmt == IF IsLam(t[2])
                         THEN <<LParen>> \o Display(t[2]) \o <<RParen>>
                         ELSE Display(t[2])
             right_fmt == IF IsVar(t[3])
                          THEN Display(t[3])
                          ELSE <<LParen>> \o Display(t[3]) \o <<RParen>>
         IN left_fmt \o right_fmt

(***************************************************************************)
(* grammar.rs: File::unroll.  A File is [defns, main], a Defn [name, term].*)
(***************************************************************************)
\* the for loop over defns.into_iter().rev(): i is the next index taken
RECURSIVE unroll_loop(_, _, _)
unroll_loop(defns, i, main) ==
    IF i = 0 THEN main
    ELSE unroll_loop(defns, i - 1,
                     Appl(Lam(defns[i].name, main), defns[i].term))

\* unroll without the .rev()
RECURSIVE unroll_forward_loop(_, _, _)
unroll_forward_loop(defns, i, main) ==
    IF i > Len(defns) THEN main
    ELSE unroll_forward_loop(defns, i + 1,
                             Appl(Lam(defns[i].name, main), defns[i].term))

unroll_forward(file) == unroll_forward_loop(file.defns, 1, file.main)

unroll(file) == unroll_loop(file.defns, Len(file.defns), file.main)

(***************************************************************************)
(* parse.rs: to_term.  The rules are those of the doc comments of lam,     *)
(* appl and term, read as a PEG (ordered choice, greedy repetition); the   *)
(* input is the token sequence Display writes.                             *)
(***************************************************************************)
\* the grammar's ident: a word without '.', none of the punctuation tokens
IsIdentToken(tok) == Len(tok) = 1 /\ tok[1] \notin {"", "=>", "(", ")"}

ParseErr == [ok |-> FALSE, term |-> None, next |-> 0]

RECURSIVE ParseTerm(_, _), ParseAppl(_, _), ParseApplRest(_, _, _)

\* term = { lam | var | "(" ~ appl ~ ")" },  lam = { "fn" ~ ident ~ "=>" ~ appl }
ParseTerm(toks, i) ==
    LET n == Len(toks)
        body == ParseAppl(toks, i + 3)
        isLam == /\ i + 2 <= n
                 /\ toks[i] = KwFn
                 /\ IsIdentToken(toks[i + 1])
                 /\ toks[i + 2] = KwArrow
                 /\ body.ok
        inner == ParseAppl(toks, i + 1)
        isParen == /\ i <= n
                   /\ toks[i] = LParen
                   /\ inner.ok
                   /\ inner.next <= n
                   /\ toks[inner.next] = RParen
    IN IF isLam THEN
           [ok |-> TRUE, term |-> Lam(toks[i + 1], body.term), next |-> body.next]
       ELSE IF i <= n /\ IsIdentToken(toks[i]) THEN
           [ok |-> TRUE, term |-> Var(toks[i]), next |-> i + 1]
       ELSE IF isParen THEN
           [ok |-> TRUE, term |-> inner.term, next |-> inner.next + 1]
       ELSE ParseErr

\* appl = { term ~ (juxa ~ term)* }, folded by CLIMBER into a left-heavy tree
ParseApplRest(toks, i, left) ==
    LET right == ParseTerm(toks, i)
    IN IF right.ok THEN ParseApplRest(toks, right.next, Appl(left, right.term))
       ELSE [ok |-> TRUE, term |-> left, next |-> i]

ParseAppl(toks, i) ==
    LET first == ParseTerm(toks, i)
    IN IF first.ok THEN ParseApplRest(toks, first.next, first.term)
       ELSE ParseErr

to_term(input) ==
    LET r == ParseAppl(input, 1)
    IN [ok |-> r.ok, term |-> r.term]

(***************************************************************************)
(* reduce.rs: Term::reduce, one loop iteration per step.                   *)
(***************************************************************************)
\* identifiers of the enumerated inputs: two the grammar accepts and one
\* with a '.', which the public constructors of Term accept as well
ReduceNames == {Id("x"), Id("y"), <<"y", 1>>}

I_x == Lam(Id("x"), Var(Id("x")))
Omega == LET w == Lam(Id("x"), Appl(Var(Id("x")), Var(Id("x")))) IN Appl(w, w)
\* (fn t => fn e => t) x ((fn x => x x)(fn x => x x))
LazyEval ==
    Appl(Appl(Lam(Id("t"), Lam(Id("e"), Var(Id("t")))), Var(Id("x"))), Omega)
\* both children of the root reducible, the left one not a Lam
BothSides == Appl(Appl(I_x, Var(Id("x"))), Appl(I_x, Var(Id("y"))))
\* the root redex has a redex inside its abstraction
InnerRedex == Appl(Lam(Id("x"), Appl(I_x, Var(Id("x")))), Var(Id("y")))
\* a free variable applied to a redex
RightOnly == Appl(Var(Id("y")), Appl(I_x, Var(Id("x"))))


V(n) == Var(Id(n))
L(p, r) == Lam(Id(p), r)

\* bool.rs: fn t => fn e => t and fn t => fn e => e
Bool_TRUE == L("t", L("e", V("t")))
Bool_FALSE == L("t", L("e", V("e")))

\* (fn x => x) z
SimpleLamAppl == Appl(I_x, V("z"))
\* (fn f => fn a => f) x
NestedSub == Appl(L("f", L("a", V("f"))), V("x"))
\* (fn f => fn a => f (f a)) (fn q => r) a b
OrderMatters ==
    Appl(Appl(Appl(L("f", L("a", Appl(V("f"), Appl(V("f"), V("a"))))),
                   L("q", V("r"))),
              V("a")),
         V("b"))
\* (fn f => fn y => fn x => x (y f)) y x f
ManyRenames ==
    Appl(Appl(Appl(L("f", L("y", L("x", Appl(V("x"), Appl(V("y"), V("f")))))),
                   V("y")),
              V("x")),
         V("f"))
\* (fn g => ((fn y => g (y y)) (fn y => g (y y))))
\*     (fn f => fn x => x q (f (fn t => fn e => t))) (fn t => fn e => e)
YCombinator ==
    LET w == L("y", Appl(V("g"), Appl(V("y"), V("y"))))
        gen == L("f", L("x", Appl(Appl(V("x"), V("q")),
                                  Appl(V("f"), Bool_TRUE))))
    IN Appl(Appl(L("g", Appl(w, w)), gen), Bool_FALSE)

DocumentedTerms ==
    {SimpleLamAppl, NestedSub, OrderMatters, ManyRenames, YCombinator}

(***************************************************************************)
(* data/church.rs: Term::from(n), usize::try_from(&Term), SUCC.            *)
(***************************************************************************)
\* SUCC without the added application of f: fn n => fn f => fn a => n f a
SUCC_without_f ==
    L("n", L("f", L("a", Appl(Appl(V("n"), V("f")), V("a")))))

\* fn n => fn f => fn a => f (n f a)
SUCC ==
    L("n", L("f", L("a", Appl(V("f"), Appl(Appl(V("n"), V("f")), V("a"))))))

\* the for loop of From<usize>: n more applications of f around out
RECURSIVE from_usize_loop(_, _)
from_usize_loop(out, n) ==
    IF n = 0 THEN out ELSE from_usize_loop(Appl(V("f"), out), n - 1)

from_usize(n) == L("f", L("a", from_usize_loop(V("a"), n)))

NotChurchNum == [ok |-> FALSE]
Ok(n) == [ok |-> TRUE, val |-> n]

\* try_from with the literal names f and a in place of the two parameters
RECURSIVE try_from_loop_fixed_names(_, _, _, _)
try_from_loop_fixed_names(curr, f, a, n) ==
    IF IsAppl(curr) THEN
        IF IsVar(curr[2]) /\ curr[2][2] = Id("f")
        THEN try_from_loop_fixed_names(curr[3], f, a, n + 1)
        ELSE NotChurchNum
    ELSE IF IsVar(curr) /\ curr[2] = Id("a") THEN Ok(n)
    ELSE NotChurchNum

\* the while loop of try_from and the test that follows it
RECURSIVE try_from_loop(_, _, _, _)
try_from_loop(curr, f, a, n) ==
    IF IsAppl(curr) THEN
        IF IsVar(curr[2]) /\ curr[2][2] = f
        THEN try_from_loop(curr[3], f, a, n + 1)
        ELSE NotChurchNum
    ELSE IF IsVar(curr) /\ curr[2] = a THEN Ok(n)
    ELSE NotChurchNum

try_from_usize(term) ==
    IF IsLam(term) /\ IsLam(term[3])
    THEN try_from_loop(term[3][3], term[2], term[3][2], 0)
    ELSE NotChurchNum

\* the term Term::succ hands to reduce
succ(n) == Appl(SUCC, n)

SuccTerms == {succ(from_usize(n)) : n \in 0..MaxNum}

ExampleTerms ==
    {Omega, LazyEval, BothSides, InnerRedex, RightOnly}
        \cup DocumentedTerms \cup SuccTerms

ReduceInputs == TermsUpTo(MaxSize, ReduceNames) \cup ExampleTerms

ReduceInit ==
    /\ self \in ReduceInputs
    /\ COUNTER \in 0..MaxCounter
    /\ verbose \in BOOLEAN
    /\ pc = "loop"
    /\ stdout = <<>>
    /\ steps = 0
    /\ args = [t |-> self, c |-> COUNTER]
    /\ ret = None

\* the loop body printing the term after the step instead of before it
ReduceStep_prints_after ==
    /\ pc = "loop"
    /\ ~is_irreducible(self)
    /\ steps < MaxSteps
    /\ LET r == reduction_step(self, COUNTER)
       IN /\ self' = r.term
          /\ COUNTER' = r.counter
          /\ pc' = IF r.panic THEN "panic" ELSE "loop"
          /\ stdout' = IF verbose THEN Append(stdout, Display(r.term)) ELSE stdout
    /\ steps' = steps + 1
    /\ UNCHANGED <<verbose, args, ret>>

\* the loop body: println when verbose, then reduction_step
ReduceStep ==
    /\ pc = "loop"
    /\ ~is_irreducible(self)
    /\ steps < MaxSteps
    /\ LET r == reduction_step(self, COUNTER)
       IN /\ self' = r.term
          /\ COUNTER' = r.counter
          /\ pc' = IF r.panic THEN "panic" ELSE "loop"
    /\ stdout' = IF verbose THEN Append(stdout, Display(self)) ELSE stdout
    /\ steps' = steps + 1
    /\ UNCHANGED <<verbose, args, ret>>

\* the loop condition fails: reduce returns self
ReduceReturn ==
    /\ pc = "loop"
    /\ is_irreducible(self)
    /\ pc' = "done"
    /\ ret' = self
    /\ UNCHANGED <<self, COUNTER, verbose, stdout, steps, args>>

Next == ReduceStep \/ ReduceReturn

Spec == ReduceInit /\ [][Next]_vars

(***************************************************************************)
(* Properties of reduce (specification Spec).                              *)
(***************************************************************************)
\* an identifier the grammar accepts: no '.', so a single element
GrammarIdent(n) == Len(n) = 1
GrammarTerm(t) == \A n \in Idents(t) : GrammarIdent(n)

\* C1: whenever reduce returns, with verbose on or off, the returned term
\* has no beta-redex at any position.
C1_ReduceReturnsIrreducible ==
    pc = "done" => Redexes(ret) = {}

C1_Witness ==
    pc = "done" /\ verbose /\ steps >= 2

\* C3: every call of reduction_step from reduce's loop contracts exactly one
\* redex, the first one in the left-to-right, outside-in order of positions;
\* the rest of the term is untouched, and for terms of the grammar the
\* result is one of the textbook one-step reducts.
C3_StepIsLeftmostOutermost ==
    [][steps' = steps + 1 =>
         /\ Redexes(self) # {}
         /\ LET p == LeftmostOutermost(self)
                r == apply(At(self, p), COUNTER)
            IN /\ ~r.panic
               /\ self' = ReplaceAt(self, p, r.term)
               /\ COUNTER' = r.counter
         /\ GrammarTerm(args.t) => DB(self') \in DBReducts(DB(self))]_vars

\* the left child is stepped although the right child is reducible too
C3_Witness ==
    /\ args.t = BothSides
    /\ steps = 1
    /\ self = Appl(Var(Id("x")), Appl(I_x, Var(Id("y"))))

\* C4: a term with a beta-normal form makes reduce terminate, and reduce
\* returns that normal form up to alpha-equivalence.
C4_ReduceFindsNormalForm ==
    LET nfs == DBNormalForms({DB(args.t)}, NFDepth)
    IN nfs # {} =>
         /\ pc = "done" => nfs = {DB(ret)}
         /\ ~(pc = "loop" /\ steps = MaxSteps /\ ~is_irreducible(self))

\* C4 for the terms the parser produces
C4_ForGrammarTerms ==
    GrammarTerm(args.t) => C4_ReduceFindsNormalForm

\* the documented case: the diverging argument is dropped unevaluated
C4_LazyEvalReturnsX ==
    args.t = LazyEval =>
        /\ steps = 2 => self = Var(Id("x"))
        /\ pc = "done" => (steps = 2 /\ ret = Var(Id("x")))

(***************************************************************************)
(* Term::subst called on its own (specification SpecSubst), as the unit    *)
(* tests of reduce.rs call it: self = t, replace = x, with = s.            *)
(***************************************************************************)
SubstNames == {Id("x"), Id("y"), <<"y", 1>>}

SubstInit ==
    /\ args \in [t : TermsUpTo(SubstSize, SubstNames),
                 x : SubstNames,
                 s : TermsUpTo(SubstArgSize, SubstNames),
                 c : 0..MaxCounter]
    /\ self = args.t
    /\ COUNTER = args.c
    /\ pc = "call"
    /\ verbose = FALSE
    /\ stdout = <<>>
    /\ steps = 0
    /\ ret = None

SubstCall ==
    /\ pc = "call"
    /\ LET r == subst(self, args.x, args.s, COUNTER)
       IN /\ self' = r.term
          /\ COUNTER' = r.counter
          /\ ret' = r.term
    /\ pc' = "done"
    /\ UNCHANGED <<verbose, stdout, steps, args>>

SpecSubst == SubstInit /\ [][SubstCall]_vars

\* every '.'-name of t was handed out by this thread's counter before: its
\* number is at most c
NameIsOld(n, c) == Len(n) = 1 \/ (Len(n) = 2 /\ n[2] <= c)
NamesAreOld(t, c) == \A n \in Idents(t) : NameIsOld(n, c)

\* C2: subst(t, x, s) is alpha-equivalent to the capture-avoiding
\* substitution t[s/x], so no variable free in s is captured by a binder of t.
C2_SubstIsCaptureAvoiding ==
    pc = "done" =>
        /\ DB(ret) = DBSubstFree(DB(args.t), args.x, DB(args.s))
        /\ args.x \in FV(args.t) => FV(args.s) \subseteq FV(ret)

\* C2 when neither x nor an identifier of t or s is a name the counter has
\* yet to hand out
C2_ForOldNames ==
    (NameIsOld(args.x, args.c) /\ NamesAreOld(args.t, args.c)
                               /\ NamesAreOld(args.s, args.c))
        => C2_SubstIsCaptureAvoiding

\* C7: substituting for a name that is not free in t leaves t unchanged up
\* to alpha-equivalence.
C7_NoOpSubst ==
    (pc = "done" /\ args.x \notin FV(args.t)) => DB(ret) = DB(args.t)

\* C7 when neither x nor an identifier of t is a name the counter has yet to
\* hand out
C7_ForOldNames ==
    (NameIsOld(args.x, args.c) /\ NamesAreOld(args.t, args.c)) => C7_NoOpSubst

(***************************************************************************)
(* Term::alpha_equiv called on pairs (SpecAlpha) and on the three pairs of *)
(* a triple (SpecAlphaTriple).                                             *)
(***************************************************************************)
AlphaNames == {Id("x"), Id("y")}

AlphaFrame ==
    /\ self = None
    /\ COUNTER = 0
    /\ pc = "call"
    /\ verbose = FALSE
    /\ stdout = <<>>
    /\ steps = 0
    /\ ret = None

AlphaInit ==
    /\ \E a, b \in TermsUpTo(AlphaSize, AlphaNames) :
          args = [a |-> a, b |-> b, c |-> a]
    /\ AlphaFrame

AlphaTripleInit ==
    /\ args \in [a : TermsUpTo(AlphaTripleSize, AlphaNames),
                 b : TermsUpTo(AlphaTripleSize, AlphaNames),
                 c : TermsUpTo(AlphaTripleSize, AlphaNames)]
    /\ AlphaFrame

AlphaCall ==
    /\ pc = "call"
    /\ ret' = [aa |-> alpha_equiv(args.a, args.a),
               ab |-> alpha_equiv(args.a, args.b),
               ba |-> alpha_equiv(args.b, args.a),
               bc |-> alpha_equiv(args.b, args.c),
               ac |-> alpha_equiv(args.a, args.c)]
    /\ pc' = "done"
    /\ UNCHANGED <<self, COUNTER, verbose, stdout, steps, args>>

SpecAlpha == AlphaInit /\ [][AlphaCall]_vars

SpecAlphaTriple == AlphaTripleInit /\ [][AlphaCall]_vars

\* C5: alpha_equiv(t1, t2) is true exactly when the nameless forms of t1
\* and t2, free variables kept by name, are the same; a bound occurrence
\* never matches a free one, and two free ones match only by name.
C5_AlphaEquivIsNamelessEquality ==
    pc = "done" =>
        /\ ret.ab = (DB(args.a) = DB(args.b))
        /\ ret.ba = (DB(args.b) = DB(args.a))

\* equal up to renaming although the texts differ, under a shadowing binder
C5_Witness ==
    /\ pc = "done"
    /\ ret.ab
    /\ args.a = Lam(Id("x"), Lam(Id("x"), Var(Id("x"))))
    /\ args.b = Lam(Id("x"), Lam(Id("y"), Var(Id("y"))))

\* C6: alpha_equiv is reflexive, symmetric and transitive.
C6_AlphaEquivIsEquivalence ==
    pc = "done" =>
        /\ ret.aa
        /\ ret.ab => ret.ba
        /\ (ret.ab /\ ret.bc) => ret.ac

\* three different texts of one term
C6_Witness ==
    /\ pc = "done"
    /\ ret.ab /\ ret.bc /\ ret.ac
    /\ Cardinality({args.a, args.b, args.c}) = 3

(***************************************************************************)
(* File::unroll called on its own (specification SpecUnroll).              *)
(***************************************************************************)
UnrollNames == {Id("ident"), Id("zero")}
UnrollTerms == TermsUpTo(2, UnrollNames)
Defns == [name : UnrollNames, term : UnrollTerms]

UnrollInit ==
    /\ \E n \in 0..MaxDefns :
          args \in [defns : [1..n -> Defns], main : UnrollTerms]
    /\ self = None
    /\ COUNTER = 0
    /\ pc = "call"
    /\ verbose = FALSE
    /\ stdout = <<>>
    /\ steps = 0
    /\ ret = None

UnrollCall ==
    /\ pc = "call"
    /\ ret' = unroll(args)
    /\ pc' = "done"
    /\ UNCHANGED <<self, COUNTER, verbose, stdout, steps, args>>

SpecUnroll == UnrollInit /\ [][UnrollCall]_vars

\* (fn d1 => (fn d2 => ... (fn dn => m) tn ...) t2) t1, built from the front
RECURSIVE Nested(_, _)
Nested(defns, main) ==
    IF defns = <<>> THEN main
    ELSE Appl(Lam(Head(defns).name, Nested(Tail(defns), main)), Head(defns).term)

\* C8: unroll returns exactly (fn d1 => (fn d2 => ... (fn dn => m) tn ...) t2) t1,
\* the first definition outermost; with no definitions it returns m.
C8_UnrollNestsInOrder ==
    pc = "done" =>
        /\ ret = Nested(args.defns, args.main)
        /\ args.defns = <<>> => ret = args.main

C8_Witness ==
    /\ pc = "done"
    /\ Len(args.defns) = 3
    /\ args.defns[1].name # args.defns[3].name
    /\ ret[2][2] = args.defns[1].name
    /\ ret[3] = args.defns[1].term

(***************************************************************************)
(* Display, and to_term of what Display wrote (specification SpecDisplay). *)
(***************************************************************************)
\* x, an identifier spelled like the keyword, and a generated name
DisplayNames == {Id("x"), Id("fn"), <<"x", 1>>}

DisplayInit ==
    /\ \E t \in TermsUpTo(DisplaySize, DisplayNames) : args = [t |-> t]
    /\ self = None
    /\ COUNTER = 0
    /\ pc = "call"
    /\ verbose = FALSE
    /\ stdout = <<>>
    /\ steps = 0
    /\ ret = None

DisplayCall ==
    /\ pc = "call"
    /\ ret' = [text |-> Display(args.t), parsed |-> to_term(Display(args.t))]
    /\ pc' = "done"
    /\ UNCHANGED <<self, COUNTER, verbose, stdout, steps, args>>

SpecDisplay == DisplayInit /\ [][DisplayCall]_vars

Front(p) == SubSeq(p, 1, Len(p) - 1)

\* the positions of t written inside parentheses, when the right child of an
\* application is wrapped exactly if its variant is in rightTags
WrappedPositions(t, rightTags) ==
    {p \in Positions(t) \ {<<>>} :
        /\ IsAppl(At(t, Front(p)))
        /\ \/ p[Len(p)] = 2 /\ IsLam(At(t, p))
           \/ p[Len(p)] = 3 /\ At(t, p)[1] \in rightTags}

RECURSIVE TextAt(_, _, _)
TextAt(t, p, rightTags) ==
    LET u == At(t, p)
        raw == IF IsVar(u) THEN <<u[2]>>
               ELSE IF IsLam(u) THEN
                   <<KwFn, u[2], KwArrow>> \o TextAt(t, p \o <<3>>, rightTags)
               ELSE TextAt(t, p \o <<2>>, rightTags)
                        \o TextAt(t, p \o <<3>>, rightTags)
    IN IF p \in WrappedPositions(t, rightTags)
       THEN <<LParen>> \o raw \o <<RParen>>
       ELSE raw

\* C10 as claimed: in Appl(left, right), left is parenthesized exactly when
\* it is a Lam, right exactly when it is an Appl, and nothing else is.
C10_RightParenthesizedIffAppl ==
    pc = "done" => ret.text = TextAt(args.t, <<>>, {"Appl"})

\* C10 as amended: in Appl(left, right), left is parenthesized exactly when
\* it is a Lam, right exactly when it is not a Var (an Appl or a Lam), and
\* nothing else is: not the body of a Lam, not the whole term.
C10_RightParenthesizedIffNotVar ==
    pc = "done" => ret.text = TextAt(args.t, <<>>, {"Appl", "Lam"})

\* an abstraction as the argument of an application
C10_Witness ==
    /\ pc = "done"
    /\ IsAppl(args.t) /\ IsLam(args.t[3]) /\ IsLam(args.t[2])
    /\ ret.text[Len(ret.text)] = RParen

(***************************************************************************)
(* get_fresh_ident called from two threads (specification SpecFresh).      *)
(* COUNTER is thread_local!: each thread has its own cell, 0 at first use. *)
(* ret lists the calls made so far, each with its thread and its result.   *)
(***************************************************************************)
Threads == {"main", "worker"}

\* base names as the callers pass them: plain, already renamed, empty
FreshArgs == {Id("x"), Id("y"), <<"x", 1>>, <<"x", 1, 2>>, Id("")}

FreshInit ==
    /\ COUNTER = [th \in Threads |-> 0]
    /\ ret = <<>>
    /\ args = None
    /\ self = None
    /\ pc = "idle"
    /\ verbose = FALSE
    /\ stdout = <<>>
    /\ steps = 0

FreshCall ==
    \E th \in Threads, s \in FreshArgs \cup {ret[i].name : i \in 1..Len(ret)} :
        /\ Len(ret) < MaxCalls
        /\ LET f == get_fresh_ident(s, COUNTER[th])
           IN /\ COUNTER' = [COUNTER EXCEPT ![th] = f.counter]
              /\ ret' = Append(ret, [thread |-> th, arg |-> s, name |-> f.name,
                                      before |-> COUNTER[th], after |-> f.counter])
        /\ args' = [thread |-> th, s |-> s]
        /\ UNCHANGED <<self, pc, verbose, stdout, steps>>

SpecFresh == FreshInit /\ [][FreshCall]_vars

CallsOn(th) == {i \in 1..Len(ret) : ret[i].thread = th}

\* C11: the names successive calls on one thread return are pairwise
\* distinct, whatever the base names; every call raises the thread's counter
\* by exactly one, and the counter is never reset.
C11_FreshNamesDistinctPerThread ==
    \A th \in Threads :
        /\ \A i, j \in CallsOn(th) : i # j => ret[i].name # ret[j].name
        /\ \A i \in CallsOn(th) : ret[i].after = ret[i].before + 1
        /\ \A i, j \in CallsOn(th) : i < j => ret[i].after <= ret[j].before
        /\ COUNTER[th] = Cardinality(CallsOn(th))

\* one thread asked MaxCalls - 1 times for the same base and once for a
\* renamed one
C11_Witness ==
    /\ Len(ret) >= 4
    /\ \A i \in 1..4 : ret[i].thread = "main"
    /\ ret[1].arg = Id("x") /\ ret[2].arg = Id("x") /\ ret[3].arg = Id("x")
    /\ ret[4].arg = <<"x", 1>>

\* C12: any two calls anywhere in the process, on whichever threads, return
\* different names, and no call returns a name an earlier call (on any
\* thread) has put into a term.
C12_FreshNamesDistinctAcrossThreads ==
    \A i, j \in 1..Len(ret) : i # j => ret[i].name # ret[j].name

\* C12 within one thread
C12_WithinOneThread ==
    \A i, j \in 1..Len(ret) :
        (i # j /\ ret[i].thread = ret[j].thread) => ret[i].name # ret[j].name

(***************************************************************************)
(* The documented reductions (specification Spec, the inputs of the        *)
(* reduction tests of reduce.rs).                                          *)
(***************************************************************************)
\* reduce is still looping on a reducible term when the model stops watching
OutOfSteps == pc = "loop" /\ steps = MaxSteps /\ ~is_irreducible(self)

\* reduce called on t returns a term alpha-equivalent to nf, and does return
GivesUpToAlpha(t, nf) ==
    args.t = t =>
        /\ pc # "panic"
        /\ ~OutOfSteps
        /\ pc = "done" => (alpha_equiv(ret, nf) /\ DB(ret) = DB(nf))

\* C13: reduce gives z for (fn x => x) z, fn a => x for (fn f => fn a => f) x,
\* r b for (fn f => fn a => f (f a)) (fn q => r) a b, and f (x y) for
\* (fn f => fn y => fn x => x (y f)) y x f, each up to alpha-equivalence.
C13_DocumentedNormalForms ==
    /\ GivesUpToAlpha(SimpleLamAppl, V("z"))
    /\ GivesUpToAlpha(NestedSub, L("a", V("x")))
    /\ GivesUpToAlpha(OrderMatters, Appl(V("r"), V("b")))
    /\ GivesUpToAlpha(ManyRenames, Appl(V("f"), Appl(V("x"), V("y"))))

\* the three arguments named like the binders have been passed in
C13_Witness ==
    args.t = ManyRenames /\ pc = "done" /\ steps = 3

\* C14: reduce of the Y combinator applied to the generator and to FALSE
\* stops after finitely many steps, with q.
C14_YCombinatorReachesQ ==
    args.t = YCombinator =>
        /\ pc # "panic"
        /\ ~OutOfSteps
        /\ pc = "done" => ret = V("q")

C14_Witness ==
    args.t = YCombinator /\ pc = "done" /\ ret = V("q") /\ steps > 6

(***************************************************************************)
(* usize::try_from called on its own (specification SpecChurch).           *)
(***************************************************************************)
ChurchNames == {Id("f"), Id("a"), <<"f", 1234>>}
RenameNames == ChurchNames \cup {Id("qwerty")}

\* t with every variable f written p and every variable a written q
RECURSIVE RenameVars(_, _, _)
RenameVars(t, p, q) ==
    IF IsVar(t) THEN
        IF t[2] = Id("f") THEN Var(p) ELSE IF t[2] = Id("a") THEN Var(q) ELSE t
    ELSE Appl(RenameVars(t[2], p, q), RenameVars(t[3], p, q))

\* Term::from(n) with its binders, and their occurrences, named p and q
Renamed(n, p, q) == Lam(p, Lam(q, RenameVars(from_usize(n)[3][3], p, q)))

ChurchInputs ==
    TermsUpTo(ChurchSize, ChurchNames)
        \cup {Renamed(n, p, q) : n \in 0..MaxNum, p \in RenameNames, q \in RenameNames}

ChurchInit ==
    /\ args \in [t : ChurchInputs]
    /\ self = args.t
    /\ COUNTER = 0
    /\ pc = "call"
    /\ verbose = FALSE
    /\ stdout = <<>>
    /\ steps = 0
    /\ ret = None

ChurchCall ==
    /\ pc = "call"
    /\ ret' = try_from_usize(self)
    /\ pc' = "done"
    /\ UNCHANGED <<self, COUNTER, verbose, stdout, steps, args>>

SpecChurch == ChurchInit /\ [][ChurchCall]_vars

\* C15: try_from returns Ok(n) exactly when the term is alpha-equivalent to
\* Term::from(n), and Err(NotChurchNum) when it is alpha-equivalent to no
\* numeral.
C15_OkIffAlphaEquivalentNumeral ==
    pc = "done" =>
        /\ \A n \in 0..(MaxNum + 1) :
               (ret = Ok(n)) <=> (DB(args.t) = DB(from_usize(n)))
        /\ (\A n \in 0..(MaxNum + 1) : DB(args.t) # DB(from_usize(n)))
               => ret = NotChurchNum

\* the half of C15 that holds: a term alpha-equivalent to a numeral is
\* recognised as that numeral
C15_NumeralsAreRecognised ==
    pc = "done" =>
        \A n \in 0..(MaxNum + 1) :
            DB(args.t) = DB(from_usize(n)) => ret = Ok(n)

\* C16: try_from of Term::from(n) is Ok(n), and so is try_from of
\* Term::from(n) with its two binders consistently renamed, to names with a
\* '.' as well.
C16_ChurchRoundTrip ==
    pc = "done" =>
        \A n \in 0..MaxNum :
            /\ args.t = from_usize(n) => ret = Ok(n)
            /\ \A p, q \in RenameNames :
                   (args.t = Renamed(n, p, q)
                        /\ DB(Renamed(n, p, q)) = DB(from_usize(n)))
                       => ret = Ok(n)

C16_Witness ==
    /\ pc = "done"
    /\ args.t = Renamed(MaxNum, <<"f", 1234>>, Id("qwerty"))
    /\ ret = Ok(MaxNum)

(***************************************************************************)
(* Term::succ: reduce(false) of SUCC applied to the numeral (the inputs    *)
(* SuccTerms of specification Spec).                                       *)
(***************************************************************************)
\* C17: Term::from(n).succ() returns, and what it returns is
\* alpha-equivalent to Term::from(n + 1).
C17_SuccGivesNextNumeral ==
    \A n \in 0..MaxNum :
        (args.t = succ(from_usize(n)) /\ ~verbose) =>
            /\ pc # "panic"
            /\ ~OutOfSteps
            /\ pc = "done" =>
                   /\ alpha_equiv(ret, from_usize(n + 1))
                   /\ DB(ret) = DB(from_usize(n + 1))

C17_Witness ==
    /\ args.t = succ(from_usize(MaxNum))
    /\ ~verbose
    /\ pc = "done"
    /\ try_from_usize(ret) = Ok(MaxNum + 1)

(***************************************************************************)
(* Term::is_irreducible called on its own (specification SpecIrr).         *)
(***************************************************************************)
IrrNames == {Id("x"), Id("y")}

IrrInit ==
    /\ args \in [t : TermsUpTo(IrrSize, IrrNames)]
    /\ self = args.t
    /\ COUNTER = 0
    /\ pc = "call"
    /\ verbose = FALSE
    /\ stdout = <<>>
    /\ steps = 0
    /\ ret = None

IrrCall ==
    /\ pc = "call"
    /\ ret' = is_irreducible(self)
    /\ pc' = "done"
    /\ UNCHANGED <<self, COUNTER, verbose, stdout, steps, args>>

SpecIrr == IrrInit /\ [][IrrCall]_vars

\* C18: is_irreducible(t) is true exactly when no position of t, at any
\* depth, holds an application whose left child is an abstraction; a
\* variable is irreducible, an abstraction is irreducible iff its body is.
C18_IrreducibleIffNoRedex ==
    pc = "done" =>
        /\ ret = (Redexes(args.t) = {})
        /\ IsVar(args.t) => ret
        /\ IsLam(args.t) => (ret = (Redexes(args.t[3]) = {}))

\* the only redex is under a binder, in the argument of a variable
C18_Witness ==
    /\ pc = "done"
    /\ ret = FALSE
    /\ IsLam(args.t) /\ IsAppl(args.t[3]) /\ IsVar(args.t[3][2])
    /\ IsRedex(args.t[3][3])

(***************************************************************************)
(* subst on an abstraction and on a variable (specification SpecSubst).    *)
(***************************************************************************)
\* the positions of body where y occurs free, i.e. bound by an enclosing
\* abstraction Lam(y, body)
OccurrencesBoundBy(body, y) ==
    {p \in Positions(body) :
        /\ At(body, p) = Var(y)
        /\ \A k \in 0..(Len(p) - 1) :
               LET u == At(body, SubSeq(p, 1, k))
               IN ~(IsLam(u) /\ u[2] = y)}

\* C19: subst(Lam(y, body), x, s) with y # x returns an abstraction whose
\* parameter is a newly generated name z, fresh and never y itself, with z
\* at every place where y was bound by the abstraction, whether or not y is
\* free in s.
C19_BinderAlwaysRenamed ==
    (pc = "done" /\ IsLam(args.t) /\ args.t[2] # args.x) =>
        LET y == args.t[2]
            z == get_fresh_ident(y, args.c).name
        IN /\ IsLam(ret)
           /\ ret[2] = z
           /\ z # y
           /\ z \notin Idents(args.t) \cup Idents(args.s) \cup {args.x}
           /\ COUNTER > args.c
           /\ \A p \in OccurrencesBoundBy(args.t[3], y) : At(ret[3], p) = Var(z)

\* C19 when neither x nor an identifier of t or s is a name the counter has
\* yet to hand out
C19_ForOldNames ==
    (NameIsOld(args.x, args.c) /\ NamesAreOld(args.t, args.c)
                               /\ NamesAreOld(args.s, args.c))
        => C19_BinderAlwaysRenamed

\* C20: subst(Lam(x, body), x, s) returns the abstraction as it was, same
\* parameter and same body, and leaves the counter alone; so does subst on
\* Var(y) with y # x.
C20_ShadowedAndOtherVarUntouched ==
    pc = "done" =>
        /\ (IsLam(args.t) /\ args.t[2] = args.x) =>
               (ret = args.t /\ self = args.t /\ COUNTER = args.c)
        /\ (IsVar(args.t) /\ args.t[2] # args.x) =>
               (ret = args.t /\ self = args.t /\ COUNTER = args.c)

\* the rebinding abstraction has the name free in its body and an inner
\* abstraction that a renaming would touch
C20_Witness ==
    /\ pc = "done"
    /\ IsLam(args.t) /\ args.t[2] = args.x
    /\ IsLam(args.t[3]) /\ args.t[3][2] # args.x
    /\ args.t[3][3] = Var(args.x)
    /\ ret = args.t

(***************************************************************************)
(* reduce on a term without a normal form (specification Spec, input       *)
(* Omega).                                                                 *)
(***************************************************************************)
\* C21: reduce never returns on (fn x => x x)(fn x => x x): after any number
\* of steps the term is still reducible and alpha-equivalent to the input
\* (it is the input, and COUNTER is what it was), so the loop goes on and
\* no assertion is reached.
C21_OmegaNeverReturns ==
    args.t = Omega =>
        /\ pc = "loop"
        /\ ~is_irreducible(self)
        /\ Redexes(self) # {}
        /\ DB(self) = DB(Omega)
        /\ self = Omega
        /\ COUNTER = args.c
        /\ ret = None

C21_Witness ==
    args.t = Omega /\ steps = MaxSteps /\ pc = "loop"

\* the identifier as the program writes it has exactly one '.'
OneDot(n) == Len(n) = 2

\* the part of s before its first '.'
Base(s) == <<Head(s)>>

\* C22: get_fresh_ident(s) returns base.n, base the part of s before its
\* first '.' and n the counter after the increment; the name has exactly one
\* '.', and renaming a renamed name, any number of times, gives base.n again.
C22_FreshNameIsBaseDotCounter ==
    \A i \in 1..Len(ret) :
        /\ ret[i].name = Base(ret[i].arg) \o <<ret[i].after>>
        /\ ret[i].after = ret[i].before + 1
        /\ OneDot(ret[i].name)
        /\ Len(Base(ret[i].arg)) = 1
        /\ \A j \in 1..Len(ret) :
               ret[i].arg = ret[j].name => Base(ret[i].name) = Base(ret[j].arg)

\* a name is renamed, the result renamed again, and that result once more
C22_Witness ==
    /\ Len(ret) >= 4
    /\ ret[1].arg = Id("x")
    /\ \A i \in 2..4 : ret[i].arg = ret[i - 1].name
    /\ ret[4].name = <<"x", 4>>

(***************************************************************************)
(* The two unreachable! of reduce.rs (specification Spec).                 *)
(***************************************************************************)
\* the positions reduction_step is called on, from the root down to the
\* redex handed to apply
CallChain(t) ==
    LET p == LeftmostOutermost(t)
    IN {SubSeq(p, 1, k) : k \in 0..Len(p)}

\* C23: while reduce runs, reduction_step is never called on a Var, only on
\* reducible subterms, and apply only on an application with an abstraction
\* on its left, so neither unreachable! is reached.
C23_AssertionsNeverReached ==
    /\ pc # "panic"
    /\ (pc = "loop" /\ ~is_irreducible(self)) =>
           /\ ~reduction_step(self, COUNTER).panic
           /\ \A q \in CallChain(self) :
                  /\ ~IsVar(At(self, q))
                  /\ ~is_irreducible(At(self, q))
           /\ IsRedex(At(self, LeftmostOutermost(self)))

\* the step went past a variable into the argument, where the redex was
C23_Witness ==
    /\ steps >= 1
    /\ IsAppl(args.t) /\ IsVar(args.t[2]) /\ IsRedex(args.t[3])
    /\ pc = "done"

(***************************************************************************)
(* reduce in verbose mode (specification Spec).                            *)
(***************************************************************************)
\* the term and the counter after k iterations of reduce's loop on t
RECURSIVE TermAfter(_, _, _)
TermAfter(t, c, k) ==
    IF k = 0 THEN [term |-> t, counter |-> c]
    ELSE LET r == reduction_step(t, c) IN TermAfter(r.term, r.counter, k - 1)

\* C24: verbose reduce prints the current term once before each step and
\* nothing else: line k is the term after k - 1 steps, the returned term is
\* not printed, an irreducible input prints nothing; without verbose nothing
\* is printed, and the returned term is the same either way.
C24_VerbosePrintsTermBeforeEachStep ==
    /\ ~verbose => stdout = <<>>
    /\ verbose =>
           /\ Len(stdout) = steps
           /\ \A k \in 1..steps :
                  stdout[k] = Display(TermAfter(args.t, args.c, k - 1).term)
    /\ is_irreducible(args.t) => stdout = <<>>
    /\ pc = "done" =>
           /\ ret = TermAfter(args.t, args.c, steps).term
           /\ \A k \in 1..Len(stdout) : stdout[k] # Display(ret)

C24_Witness ==
    /\ verbose
    /\ pc = "done"
    /\ Len(stdout) = 3
    /\ stdout[1] = Display(args.t)

(***************************************************************************)
(* The placeholder of apply (specification Spec).                          *)
(***************************************************************************)
\* the identifier of Var(String::new())
Placeholder == Id("")

\* C25: the placeholder Var("") that apply puts into the redex position is
\* overwritten before apply returns: every term reduce prints or returns is
\* the input after a whole number of completed steps and holds no
\* placeholder unless the input held one.
C25_PlaceholderNeverObserved ==
    Placeholder \notin Idents(args.t) =>
        /\ Placeholder \notin Idents(self)
        /\ self = TermAfter(args.t, args.c, steps).term
        /\ \A k \in 1..Len(stdout) :
               /\ \A i \in 1..Len(stdout[k]) : stdout[k][i] # Placeholder
               /\ stdout[k] = Display(TermAfter(args.t, args.c, k - 1).term)
        /\ pc = "done" => (Placeholder \notin Idents(ret) /\ ret = self)

\* apply has run inside the term, under an abstraction, and at its root
C25_Witness ==
    /\ args.t = InnerRedex
    /\ verbose
    /\ pc = "done"
    /\ steps = 2
    /\ Len(stdout) = 2

(***************************************************************************)
(* The names get_fresh_ident hands out while reduce runs (specification    *)
(* Spec).                                                                  *)
(***************************************************************************)
\* the names get_fresh_ident returns in the course of t.subst(replace, with)
RECURSIVE subst_fresh_names(_, _, _, _)
subst_fresh_names(t, replace, with, c) ==
    IF IsVar(t) THEN {}
    ELSE IF IsLam(t) THEN
        IF t[2] = replace THEN {}
        ELSE LET f == get_fresh_ident(t[2], c)
                 r1 == subst(t[3], t[2], Var(f.name), f.counter)
             IN {f.name}
                  \cup subst_fresh_names(t[3], t[2], Var(f.name), f.counter)
                  \cup subst_fresh_names(r1.term, replace, with, r1.counter)
    ELSE LET l == subst(t[2], replace, with, c)
         IN subst_fresh_names(t[2], replace, with, c)
              \cup subst_fresh_names(t[3], replace, with, l.counter)

\* the names the next step of reduce's loop generates
StepFreshNames ==
    LET redex == At(self, LeftmostOutermost(self))
    IN subst_fresh_names(redex[2][3], redex[2][2], redex[3], COUNTER)

\* C26: whatever Term reduce is given, a name get_fresh_ident returns during
\* a step differs from every identifier of the term being rewritten and of
\* the term being substituted in, because names with a '.' come from
\* get_fresh_ident alone.
C26_FreshNamesAreNew ==
    (pc = "loop" /\ ~is_irreducible(self)) =>
        StepFreshNames \cap Idents(self) = {}

\* C26 for inputs whose '.'-names this thread's counter has handed out
C26_ForOldNames ==
    NamesAreOld(args.t, args.c) => C26_FreshNamesAreNew

(***************************************************************************)
(* Free variables along a reduction (specification Spec).                  *)
(***************************************************************************)
\* C27: for an input with grammar identifiers, after any number of steps and
\* in the returned term, every free variable is a free variable of the
\* input; the generated names base.n are binders or bound occurrences only.
C27_NoInventedFreeVariables ==
    GrammarTerm(args.t) =>
        /\ FV(self) \subseteq FV(args.t)
        /\ \A n \in Idents(self) : ~GrammarIdent(n) => n \notin FV(self)
        /\ pc = "done" => FV(ret) \subseteq FV(args.t)

\* a binder was renamed and its bound occurrence with it
C27_Witness ==
    /\ GrammarTerm(args.t)
    /\ pc = "done"
    /\ IsLam(ret) /\ ~GrammarIdent(ret[2])
    /\ ret[2] \in Idents(ret[3])
    /\ FV(args.t) # {}

(***************************************************************************)
(* Two runs of reduce side by side (specification SpecPair): inputs a and  *)
(* b are alpha-equivalent grammar terms, each run has its own counter.     *)
(* A run whose term is reducible takes a loop iteration; both return once  *)
(* both terms are irreducible.                                             *)
(***************************************************************************)
PairNames == {Id("x"), Id("y")}
PairTerms == TermsUpTo(PairSize, PairNames)
PairCounters == 0..(MaxCounter + 1)

\* the pairs of alpha-equivalent inputs
AlphaPairs ==
    LET db == [t \in PairTerms |-> DB(t)]
        classes == {db[t] : t \in PairTerms}
        members(d) == {t \in PairTerms : db[t] = d}
    IN UNION {members(d) \X members(d) : d \in classes}

PairInit ==
    /\ \E q \in AlphaPairs, ca \in PairCounters, cb \in PairCounters :
           args = [a |-> q[1], b |-> q[2], ca |-> ca, cb |-> cb]
    /\ self = [a |-> args.a, b |-> args.b]
    /\ COUNTER = [a |-> args.ca, b |-> args.cb]
    /\ steps = [a |-> 0, b |-> 0]
    /\ pc = "loop"
    /\ verbose = FALSE
    /\ stdout = <<>>
    /\ ret = None

\* one loop iteration of the run r, if its term is reducible
PairRun(r) ==
    IF is_irreducible(self[r])
    THEN [term |-> self[r], counter |-> COUNTER[r], steps |-> steps[r],
          panic |-> FALSE]
    ELSE LET n == reduction_step(self[r], COUNTER[r])
         IN [term |-> n.term, counter |-> n.counter, steps |-> steps[r] + 1,
             panic |-> n.panic]

PairStep ==
    /\ pc = "loop"
    /\ ~is_irreducible(self.a) \/ ~is_irreducible(self.b)
    /\ steps.a < MaxSteps /\ steps.b < MaxSteps
    /\ self' = [r \in {"a", "b"} |-> PairRun(r).term]
    /\ COUNTER' = [r \in {"a", "b"} |-> PairRun(r).counter]
    /\ steps' = [r \in {"a", "b"} |-> PairRun(r).steps]
    /\ pc' = IF PairRun("a").panic \/ PairRun("b").panic THEN "panic" ELSE "loop"
    /\ UNCHANGED <<verbose, stdout, args, ret>>

PairReturn ==
    /\ pc = "loop"
    /\ is_irreducible(self.a) /\ is_irreducible(self.b)
    /\ pc' = "done"
    /\ ret' = self
    /\ UNCHANGED <<self, COUNTER, verbose, stdout, steps, args>>

PairNext == PairStep \/ PairReturn

SpecPair == PairInit /\ [][PairNext]_vars

\* C28: for grammar terms, reduce of alpha-equivalent inputs from any two
\* counter values takes the same number of steps and, when it returns,
\* returns alpha-equivalent terms.
C28_OutcomeIndependentOfCounterAndNames ==
    /\ steps.a = steps.b
    /\ is_irreducible(self.a) <=> is_irreducible(self.b)
    /\ DB(self.a) = DB(self.b)
    /\ pc = "done" => (alpha_equiv(ret.a, ret.b) /\ DB(ret.a) = DB(ret.b))

\* the two runs differ in a binder name and in the counter, and both had to
\* rename
C28_Witness ==
    /\ pc = "done"
    /\ args.a # args.b
    /\ args.ca # args.cb
    /\ steps.a >= 1
    /\ ret.a # ret.b
    /\ \E n \in Idents(ret.a) : ~GrammarIdent(n)
    /\ FV(ret.a) # {}

(***************************************************************************)
(* Which abstraction of the unrolled term binds an occurrence of a         *)
(* definition's name (specification SpecUnroll).                           *)
(***************************************************************************)
\* <<2, 3>> k times: from the root of the unrolled term past k definitions
RECURSIVE PastDefns(_)
PastDefns(k) == IF k = 0 THEN <<>> ELSE <<2, 3>> \o PastDefns(k - 1)

\* where the abstraction of definition i, its body t_i, and main sit
LamPos(i) == PastDefns(i - 1) \o <<2>>
TermPos(i) == PastDefns(i - 1) \o <<3>>
MainPos(n) == PastDefns(n)

NotBound == <<0>>

\* the position of the abstraction binding the variable at p in u, NotBound
\* if the variable is free in u
Binder(u, p) ==
    LET v == At(u, p)[2]
        ks == {k \in 0..(Len(p) - 1) :
                  LET w == At(u, SubSeq(p, 1, k)) IN IsLam(w) /\ w[2] = v}
    IN IF ks = {} THEN NotBound
       ELSE SubSeq(p, 1, CHOOSE k \in ks : \A m \in ks : m <= k)

\* p is a place of u where the variable d is written
IsOccurrence(u, p, d) == p \in Positions(u) /\ At(u, p) = Var(d)

\* the definitions before place j (place n + 1 is main) that are named d
DefnsBefore(defns, j, d) == {k \in 1..(j - 1) : defns[k].name = d}

\* the occurrences of d free in the body of place j, as positions of the
\* unrolled term
PlaceOccurrences(file, j, d) ==
    LET n == Len(file.defns)
        body == IF j = n + 1 THEN file.main ELSE file.defns[j].term
        at == IF j = n + 1 THEN MainPos(n) ELSE TermPos(j)
    IN {at \o p : p \in OccurrencesBoundBy(body, d)}

NotBool == [ok |-> FALSE]

try_from_bool(term) ==
    IF alpha_equiv(term, Bool_TRUE) THEN Ok(TRUE)
    ELSE IF alpha_equiv(term, Bool_FALSE) THEN Ok(FALSE)
    ELSE NotBool

\* format!("Church numeral {}", n) and format!("boolean {}", b)
ChurchNumeralText(n) == <<"Church numeral", n>>
BooleanText(b) == <<"boolean", b>>

\* guess_val asking for the boolean first
guess_val_boolean_first(t) ==
    LET n == try_from_usize(t)
        b == try_from_bool(t)
    IN (IF b.ok THEN <<BooleanText(b.val)>> ELSE <<>>)
         \o (IF n.ok THEN <<ChurchNumeralText(n.val)>> ELSE <<>>)

\* the vec of the two Options, flattened
guess_val(t) ==
    LET n == try_from_usize(t)
        b == try_from_bool(t)
    IN (IF n.ok THEN <<ChurchNumeralText(n.val)>> ELSE <<>>)
         \o (IF b.ok THEN <<BooleanText(b.val)>> ELSE <<>>)

\* Display for Matches: the one match, or each match after "\n - "
RECURSIVE Matches_fmt_list(_)
Matches_fmt_list(m) ==
    IF m = <<>> THEN <<>>
    ELSE <<"\n", " - ", Head(m)>> \o Matches_fmt_list(Tail(m))

Matches_fmt(m) == IF Len(m) = 1 THEN <<m[1]>> ELSE Matches_fmt_list(m)

\* the lines run prints for the reduced term output
run_prints(output) ==
    LET guessed_value == guess_val(output)
    IN <<Display(output)>>
         \o (IF guessed_value # <<>>
             THEN <<<<>>, <<"Alpha-equivalent to: ">> \o Matches_fmt(guessed_value)>>
             ELSE <<>>)

GuessInit ==
    /\ args \in [t : ChurchInputs]
    /\ self = args.t
    /\ COUNTER = 0
    /\ pc = "call"
    /\ verbose = FALSE
    /\ stdout = <<>>
    /\ steps = 0
    /\ ret = None

GuessCall ==
    /\ pc = "call"
    /\ ret' = guess_val(self)
    /\ stdout' = run_prints(self)
    /\ pc' = "done"
    /\ UNCHANGED <<self, COUNTER, verbose, steps, args>>

SpecGuess == GuessInit /\ [][GuessCall]_vars

\* t is alpha-equivalent to a Church numeral
IsNumeral(t) == \E n \in 0..(MaxNum + 1) : DB(t) = DB(from_usize(n))
\* t is alpha-equivalent to TRUE or to FALSE
IsBoolean(t) == DB(t) = DB(Bool_TRUE) \/ DB(t) = DB(Bool_FALSE)

\* what the claim says of the terms that are a numeral or a boolean
GuessReportsInOrder ==
    /\ ret = (IF try_from_usize(args.t).ok
              THEN <<ChurchNumeralText(try_from_usize(args.t).val)>> ELSE <<>>)
               \o (IF try_from_bool(args.t).ok
                   THEN <<BooleanText(try_from_bool(args.t).val)>> ELSE <<>>)
    /\ DB(args.t) = DB(from_usize(0)) =>
           ret = <<ChurchNumeralText(0), BooleanText(FALSE)>>
    /\ DB(args.t) = DB(Bool_TRUE) => ret = <<BooleanText(TRUE)>>
    /\ ret = <<>> <=> stdout = <<Display(args.t)>>

\* C30: guess_val reports the numeral recognition, then the boolean one,
\* each if it succeeds: a term alpha-equivalent to fn f => fn a => a gives
\* Church numeral 0 and boolean false, one alpha-equivalent to
\* fn t => fn e => t gives boolean true only, and a term neither recogniser
\* matches gives nothing, so nothing is printed after it.
C30_GuessValReportsWhatMatches ==
    pc = "done" =>
        /\ GuessReportsInOrder
        /\ (~try_from_usize(args.t).ok /\ ~try_from_bool(args.t).ok) =>
               (ret = <<>> /\ stdout = <<Display(args.t)>>)

\* zero with both binders named alike: numeral first, then boolean
C30_Witness ==
    /\ pc = "done"
    /\ args.t = L("a", L("a", V("a")))
    /\ ret = <<ChurchNumeralText(0), BooleanText(FALSE)>>
    /\ Len(stdout) = 3

\* the last part of C30 for the terms that are, up to alpha-equivalence,
\* neither a numeral nor a boolean; it fails where C15 fails
C30_NothingForOtherTerms ==
    (pc = "done" /\ ~IsNumeral(args.t) /\ ~IsBoolean(args.t)) => ret = <<>>

====
